---- MODULE Spec2Model ----
(***************************************************************************)
(* Model of UpdateAdGuardDNSRewrites.py: aggregation of remote domain      *)
(* lists by a pool of worker threads, followed by the sequential           *)
(* diff-and-apply of the aggregated entries against the rewrite table of   *)
(* the DNS server.                                                         *)
(*                                                                         *)
(* Text is modelled as sequences of one-character strings, so that         *)
(* str.strip, str.split and str.startswith are computed, not assumed.      *)
(***************************************************************************)
EXTENDS Integers, Sequences, FiniteSets, TLC

VARIABLES
    env,                     \* os.environ: the settings of the run
    http,                    \* per kind of request: how many were sent
    remote,                  \* per file path: the body the remote host serves
    busy,                    \* retryable answers given to a call before its final one
    refusing,                \* a host of this run may refuse a connection
    wtries,                  \* per worker thread: requests sent for its file
    MAX_WORKERS,             \* module constant read from the environment
    BATCH_SIZE,              \* module constant read from the environment
    progress,                \* processed counts at which a summary was logged
    mpc,                     \* position of main()
    exit_code,               \* value returned by main(), -1 while running
    fetch_all_services,      \* main: ALL_SERVICES == 'true'
    specific_services_names, \* main: the selected service names
    file_paths,              \* main: result of get_file_list_from_json
    work_queue,              \* download_files_concurrently: queue.Queue
    results,                 \* download_files_concurrently: shared list
    lock,                    \* threading.Lock: 0 when free, else the holder
    wpc,                     \* per worker thread: position in worker()
    wfile,                   \* per worker thread: file_path it claimed
    wdata,                   \* per worker thread: processed_data
    claimed,                 \* per file path: how often get_nowait returned it
    inflight,                \* domain-list GET requests sent and not answered
    fetch_log,               \* per file path: outcome of its download_file
    dns_rewrites,            \* main: the aggregated list handed to the updater
    server,                  \* rewrite table of the server, once contacted
    current_rewrites,        \* update_dns_rewrites: the snapshot (or None)
    rstate,                  \* reconciler run: INIT, DIFF_APPLY, DONE, FAILED
    i,                       \* batch_update_rewrites: entries processed
    added_count,
    updated_count,
    skipped_count,
    baseline,                \* outcome of GET /list: none, ok, failed
    calls,                   \* write calls issued by this run, in order
    outcomes,                \* per processed entry: skipped or the outcome
                             \* of its write call
    run,                     \* number of the reconciliation run (1 or 2)
    prev                     \* summary of the previous reconciliation run

vars == <<env, remote, busy, refusing, wtries, http, MAX_WORKERS, BATCH_SIZE, progress, mpc, exit_code, fetch_all_services,
          specific_services_names, file_paths, work_queue, results, lock,
          wpc, wfile, wdata, claimed, inflight, fetch_log, dns_rewrites, server,
          current_rewrites, rstate, i, added_count, updated_count,
          skipped_count, baseline, calls, outcomes, run, prev>>

(***************************************************************************)
(* Bounds of the model.                                                    *)
(***************************************************************************)
MaxWorkers == 2
MaxLen == 3
MaxBatch == 2

(***************************************************************************)
(* Optional values: Python's None and a present value.                     *)
(***************************************************************************)
None == [some |-> FALSE, val |-> <<>>]
Some(v) == [some |-> TRUE, val |-> v]

(***************************************************************************)
(* Text helpers.                                                           *)
(***************************************************************************)
Range(q) == {q[k] : k \in 1..Len(q)}

NL == "\n"
\* the characters of str.isspace() that a string of the model can hold:
\* the blank, \n, \t, \r, \f, the vertical tab (0x0b), the four separators
\* 0x1c to 0x1f, and of the spaces above 0x7f the next line (0x85), the
\* no-break space (0xa0) and the ogham space mark (0x1680); the spaces from
\* 0x2000 on (0x2000 to 0x200a, 0x2028, 0x2029, 0x202f, 0x205f, 0x3000)
\* cannot be written in a string of the model
UnicodeSpaces == {"", " ", " "}

ControlSpaces == {"", "", "", "", ""}

Whitespace == {" ", NL, "\t", "\r", "\f"} \cup ControlSpaces \cup UnicodeSpaces

RECURSIVE LStrip(_)
LStrip(s) ==
    IF s # <<>> /\ Head(s) \in Whitespace THEN LStrip(Tail(s)) ELSE s

RECURSIVE RStrip(_)
RStrip(s) ==
    IF s # <<>> /\ s[Len(s)] \in Whitespace
    THEN RStrip(SubSeq(s, 1, Len(s) - 1))
    ELSE s

Strip(s) == RStrip(LStrip(s))

RECURSIVE SplitFrom(_, _, _)
SplitFrom(s, cur, acc) ==
    IF s = <<>> THEN Append(acc, cur)
    ELSE IF Head(s) = NL THEN SplitFrom(Tail(s), <<>>, Append(acc, cur))
    ELSE SplitFrom(Tail(s), Append(cur, Head(s)), acc)

SplitLines(s) == SplitFrom(s, <<>>, <<>>)

RECURSIVE SplitOn(_, _, _, _)
SplitOn(s, sep, cur, acc) ==
    IF s = <<>> THEN Append(acc, cur)
    ELSE IF Head(s) = sep THEN SplitOn(Tail(s), sep, <<>>, Append(acc, cur))
    ELSE SplitOn(Tail(s), sep, Append(cur, Head(s)), acc)

(***************************************************************************)
(* The remote data of the run: the service catalog and the domain lists.   *)
(***************************************************************************)
\* LANCACHE_SERVER, and an answer the server may hold that differs from it
lancache_server == <<"1">>
OtherAnswer == <<"9">>
Answers == {lancache_server, OtherAnswer}

DomA == <<"a">>
DomB == <<"b">>
DomC == <<"c">>
Domains == {DomA, DomB, DomC}

SvcX == <<"X">>
SvcY == <<"Y">>

Catalog ==
    << [name |-> SvcX, domain_files |-> <<"f1", "f2">>],
       [name |-> SvcY, domain_files |-> <<"f3">>] >>

FileBody(f) ==
    CASE f = "f1" -> <<"a", NL, NL, "#", "b", NL, "c", NL>>
      [] f = "f2" -> <<"a">>
      [] f = "f3" -> <<"b", NL, "b">>

AllFiles == UNION {Range(Catalog[k].domain_files) : k \in 1..Len(Catalog)}

\* what the host of the domain lists serves in the whole runs
Served == [f \in AllFiles |-> FileBody(f)]

\* [name.strip() for name in value.split(',')] if value.strip() else []
get_specific_services_names(env_var_value) ==
    IF Strip(env_var_value) = <<>> THEN <<>>
    ELSE LET parts == SplitOn(env_var_value, ",", <<>>, <<>>)
         IN  [k \in 1..Len(parts) |-> Strip(parts[k])]

\* values of SERVICE_NAMES of the whole runs
ServiceNamesValues == {<<>>, <<"X">>, <<"Y">>, <<"Y", ",", " ", "X">>}

ServiceSelections ==
    {get_specific_services_names(v) : v \in ServiceNamesValues}

MandatorySettings ==
    {"ADGUARD_USERNAME", "ADGUARD_PASSWORD", "LANCACHE_SERVER", "ADGUARD_API"}

Environment(all, names, missing) ==
    [ALL_SERVICES |-> all, SERVICE_NAMES |-> names, missing |-> missing]

\* environments of the whole runs
Environments ==
    {Environment(FALSE, v, {}) : v \in ServiceNamesValues}
    \cup {Environment(TRUE, <<"Y">>, {})}
    \cup {Environment(all, <<"Y">>, m) :
              all \in BOOLEAN, m \in (SUBSET MandatorySettings) \ {{}}}

HttpKinds == {"catalog", "domain_list", "rewrite_list", "add", "update"}

NoRequests == [k \in HttpKinds |-> 0]

\* one request leaves the program
Sent(log, kind) == [log EXCEPT ![kind] = @ + 1]

\* Retry(total=3, ...) mounted on the session: a call of session.get, post
\* or put sends its request again after a retryable answer (429, 500, 502,
\* 503, 504 or a broken connection), three times at most
RetryTotal == 3

\* the requests one call sends: one more after every retryable answer; a
\* call that raises may have sent fewer, none when the host refuses the
\* connection or the URL is rejected before a request is built
RequestsOfCall(cut_short, retryable) ==
    IF cut_short THEN 0..(1 + retryable) ELSE {1 + retryable}

\* one whole call made by the main thread, with the requests it sent
SentCall(log, kind, sent) == [log EXCEPT ![kind] = @ + sent]

\* the runs of the whole program in which the servers give retryable
\* answers or refuse connections
RetriedEnvironments == {Environment(FALSE, <<"Y">>, {})}

\* how the servers of a run behave: <<busy, refusing>>
Undisturbed == {<<0, FALSE>>}

Retrying == (0..RetryTotal) \X {FALSE}

Disturbed == (0..RetryTotal) \X BOOLEAN

ServerTables == UNION {[D -> Answers] : D \in SUBSET Domains}

Entry(d) == [domain |-> d, answer |-> lancache_server]

RECURSIVE SeqsUpTo(_, _)
SeqsUpTo(S, n) ==
    IF n = 0 THEN {<<>>}
    ELSE LET shorter == SeqsUpTo(S, n - 1)
         IN  shorter \cup {Append(q, x) : q \in shorter, x \in S}

DesiredLists == SeqsUpTo({Entry(d) : d \in Domains}, MaxLen) \ {<<>>}

(***************************************************************************)
(* Pure functions of the program.                                          *)
(***************************************************************************)
\* response.text.strip().split('\n'), or None when the request raised
download_file(ok, body) ==
    IF ok THEN Some(SplitLines(Strip(body))) ELSE None

KeepLine(domain) == domain # <<>> /\ Head(domain) # "#"

download_and_process(ok, body) ==
    LET domains == download_file(ok, body)
    IN  IF ~domains.some THEN <<>>
        ELSE LET kept == SelectSeq(domains.val, KeepLine)
             IN  [k \in 1..Len(kept) |-> Entry(kept[k])]

\* variant: ADGUARD_API is read as an optional setting
ConfigErrorButApi(missing) == missing \ {"ADGUARD_API"} # {}

\* get_env_variable raises RuntimeError for a mandatory setting not set
ConfigError(missing) == missing # {}

CatalogOutcomes == {"ok", "missing_key", "error"}

get_available_services_names(outcome) ==
    CASE outcome = "ok" -> Some([k \in 1..Len(Catalog) |-> Catalog[k].name])
      [] outcome = "missing_key" -> Some(<<>>)
      [] outcome = "error" -> None

\* variant: the files are collected in the order of the selection
RECURSIVE FilesOfBySelection(_, _)
FilesOfBySelection(items, names) ==
    IF names = <<>> THEN <<>>
    ELSE LET hit == {k \in 1..Len(items) : items[k].name = Head(names)}
         IN  (IF hit = {} THEN <<>>
              ELSE items[CHOOSE k \in hit : TRUE].domain_files)
             \o FilesOfBySelection(items, Tail(names))

RECURSIVE FilesOf(_, _)
FilesOf(items, names) ==
    IF items = <<>> THEN <<>>
    ELSE (IF Head(items).name \in Range(names)
          THEN Head(items).domain_files ELSE <<>>)
         \o FilesOf(Tail(items), names)

get_file_list_from_json(outcome, names) ==
    CASE outcome = "ok" -> Some(FilesOf(Catalog, names))
      [] outcome = "missing_key" -> Some(<<>>)
      [] outcome = "error" -> None

\* variant: only None stops the run, the empty list does not
FalsyNoneOnly(opt) == ~opt.some

\* "if not x": None and the empty list are both falsy
Falsy(opt) == ~opt.some \/ opt.val = <<>>

\* variant: a failed fetch yields an empty table instead of None
fetch_current_rewrites_empty(ok, table) ==
    IF ok THEN Some(table) ELSE Some(<<>>)

\* the table on success; None when exception_handler caught the failure
fetch_current_rewrites(ok, table) ==
    IF ok THEN Some(table) ELSE None

\* variant: a domain found in the snapshot is never updated
DecisionNeverUpdate(domain, answer, current) ==
    IF domain \in DOMAIN current THEN "skip" ELSE "add"

\* variant: a domain found in the snapshot is updated without comparing
DecisionNoCompare(domain, answer, current) ==
    IF domain \in DOMAIN current THEN "update" ELSE "add"

\* the if/else of the loop body: update, skip or add
Decision(domain, answer, current) ==
    IF domain \in DOMAIN current
    THEN IF current[domain] # answer THEN "update" ELSE "skip"
    ELSE "add"

\* a write call is accepted, raises, or is answered with an error status
WriteOutcomes == {"ok", "raised", "http_error"}

\* variant: the two fields of the payload are swapped
WriteCallSwapped(what, domain, answer) ==
    [op |-> what, domain |-> answer, answer |-> domain]

\* json={"domain": domain, "answer": answer} sent to /add or /update
WriteCall(what, domain, answer) ==
    [op |-> what, domain |-> domain, answer |-> answer]

\* variant: no try/except around the write calls
CaughtNothing(outcome) == FALSE

\* try/except Exception around each write call: every exception is caught
Caught(outcome) == TRUE

\* variant: the diff looks the domain up in the live table of the server
ConsultedLive(snapshot, live) == live

\* the diff looks the domain up in the dict fetched before the loop
Consulted(snapshot, live) == snapshot

\* effect on the server of an accepted POST /add or PUT /update
ServerApply(table, d, a) ==
    [x \in (DOMAIN table) \cup {d} |-> IF x = d THEN a ELSE table[x]]

\* variant: one thread per file instead of a pool of MAX_WORKERS
ThreadPerFile == 1..Len(file_paths)

\* threads = [threading.Thread(target=worker) for _ in range(MAX_WORKERS)]
Threads == 1..MAX_WORKERS

(***************************************************************************)
(* Initial states.                                                         *)
(***************************************************************************)
NoPrev == [done |-> FALSE, clean |-> FALSE, writes |-> 0]

InitExceptServer ==
    /\ http = NoRequests
    /\ exit_code = -1
    /\ fetch_all_services = FALSE
    /\ specific_services_names = <<>>
    /\ file_paths = <<>>
    /\ work_queue = <<>>
    /\ results = <<>>
    /\ lock = 0
    /\ wpc = <<>>
    /\ wfile = <<>>
    /\ wdata = <<>>
    /\ wtries = <<>>
    /\ claimed = [f \in AllFiles |-> 0]
    /\ inflight = 0
    /\ fetch_log = [f \in AllFiles |-> "none"]
    /\ current_rewrites = None
    /\ rstate = "INIT"
    /\ i = 0
    /\ added_count = 0
    /\ updated_count = 0
    /\ skipped_count = 0
    /\ baseline = "none"
    /\ calls = <<>>
    /\ outcomes = <<>>
    /\ run = 1
    /\ prev = NoPrev
    /\ progress = <<>>

InitCommon ==
    /\ server = None
    /\ InitExceptServer

Init ==
    /\ env \in Environments
    /\ remote = Served
    /\ \E servers \in (IF env \in RetriedEnvironments THEN Disturbed ELSE Undisturbed) :
           busy = servers[1] /\ refusing = servers[2]
    /\ MAX_WORKERS \in 1..MaxWorkers
    /\ BATCH_SIZE = MaxBatch
    /\ mpc = "config"
    /\ dns_rewrites = <<>>
    /\ InitCommon

\* update_dns_rewrites called on a non-empty aggregated list
InitReconcile ==
    /\ env = Environment(FALSE, <<"Y">>, {})
    /\ remote = Served
    /\ busy = 0
    /\ refusing \in BOOLEAN
    /\ MAX_WORKERS = 1
    /\ BATCH_SIZE = MaxBatch
    /\ mpc = "update"
    /\ dns_rewrites \in DesiredLists
    /\ InitCommon

aggVars == <<work_queue, results, lock, wpc, wfile, wdata, wtries, claimed, inflight,
             fetch_log>>
recVars == <<server, current_rewrites, rstate, i, added_count, updated_count,
             skipped_count, baseline, calls, outcomes, run, prev, progress>>
selVars == <<fetch_all_services, specific_services_names, file_paths>>

(***************************************************************************)
(* main(): configuration, service selection and file list.                 *)
(***************************************************************************)
\* the runs of the selection phase: any SERVICE_NAMES text over the two
\* service names, the comma and the blank
MaxRaw == 3

ServiceNamesAlphabet == {"X", "Y", ",", " "}

ServiceNamesTexts ==
    UNION {[1..n -> ServiceNamesAlphabet] : n \in 0..MaxRaw}

InitSelect ==
    /\ env \in {Environment(all, v, {}) :
                   all \in BOOLEAN, v \in ServiceNamesTexts}
    /\ remote = Served
    /\ \E servers \in Disturbed : busy = servers[1] /\ refusing = servers[2]
    /\ MAX_WORKERS = 1
    /\ BATCH_SIZE = MaxBatch
    /\ mpc = "config"
    /\ dns_rewrites = <<>>
    /\ InitCommon

ReadConfig ==
    /\ mpc = "config"
    /\ fetch_all_services' = env.ALL_SERVICES
    /\ specific_services_names' =
           get_specific_services_names(env.SERVICE_NAMES)
    /\ IF ConfigError(env.missing)
       THEN /\ mpc' = "exit"
            /\ exit_code' = 1
       ELSE /\ mpc' = "select"
            /\ UNCHANGED exit_code
    /\ UNCHANGED <<env, remote, busy, refusing, http, MAX_WORKERS, BATCH_SIZE, file_paths, dns_rewrites, aggVars,
                   recVars>>

SelectServices ==
    /\ mpc = "select"
    /\ \E outcome \in CatalogOutcomes :
       \E sent \in RequestsOfCall(outcome = "error" /\ refusing, busy) :
          LET available == get_available_services_names(outcome)
          IN  /\ http' = IF fetch_all_services
                            \/ specific_services_names = <<>>
                         THEN SentCall(http, "catalog", sent) ELSE http
              /\ IF fetch_all_services
                 THEN IF Falsy(available)
                      THEN /\ mpc' = "exit"
                           /\ exit_code' = 1
                           /\ specific_services_names' = <<>>
                      ELSE /\ mpc' = "file_list"
                           /\ specific_services_names' = available.val
                           /\ UNCHANGED exit_code
                 ELSE IF specific_services_names = <<>>
                      THEN /\ mpc' = "exit"
                           /\ exit_code' = 1
                           /\ UNCHANGED specific_services_names
                      ELSE /\ mpc' = "file_list"
                           /\ UNCHANGED <<exit_code, specific_services_names>>
    /\ UNCHANGED <<env, remote, busy, refusing, MAX_WORKERS, BATCH_SIZE,
                   fetch_all_services, file_paths, dns_rewrites, aggVars,
                   recVars>>

GetFileList ==
    /\ mpc = "file_list"
    /\ \E outcome \in CatalogOutcomes :
       \E sent \in RequestsOfCall(outcome = "error" /\ refusing, busy) :
          LET got == get_file_list_from_json(outcome, specific_services_names)
          IN  /\ http' = SentCall(http, "catalog", sent)
              /\ IF Falsy(got)
                 THEN /\ mpc' = "exit"
                      /\ exit_code' = 1
                      /\ file_paths' = <<>>
                 ELSE /\ mpc' = "aggregate"
                      /\ file_paths' = got.val
                      /\ UNCHANGED exit_code
    /\ UNCHANGED <<env, remote, busy, refusing, MAX_WORKERS, BATCH_SIZE,
                   fetch_all_services, specific_services_names, dns_rewrites,
                   aggVars, recVars>>

NextSelect == ReadConfig \/ SelectServices \/ GetFileList

SpecSelect == InitSelect /\ [][NextSelect]_vars

(***************************************************************************)
(* download_files_concurrently(): the worker pool.                         *)
(***************************************************************************)
mainVars == <<env, remote, busy, refusing, MAX_WORKERS, BATCH_SIZE, exit_code, fetch_all_services,
              specific_services_names, file_paths, dns_rewrites>>

\* download_files_concurrently up to the creation of the thread objects:
\* the results, the lock and the filled queue; no thread runs yet
StartAggregation ==
    /\ mpc = "aggregate"
    /\ work_queue' = file_paths
    /\ results' = <<>>
    /\ lock' = 0
    /\ wpc' = <<>>
    /\ wfile' = <<>>
    /\ wdata' = <<>>
    /\ wtries' = <<>>
    /\ mpc' = IF Threads = {} THEN "join" ELSE "start"
    /\ claimed' = [f \in AllFiles |-> 0]
    /\ UNCHANGED <<mainVars, http, inflight, fetch_log, recVars>>

\* for thread in threads: thread.start(): one thread is started at a time,
\* and the threads already started run while the others are not; after the
\* last start main waits in the joins
StartThread ==
    /\ mpc = "start"
    /\ Len(wpc) + 1 \in Threads
    /\ wpc' = Append(wpc, "get")
    /\ wfile' = Append(wfile, "none")
    /\ wdata' = Append(wdata, <<>>)
    /\ wtries' = Append(wtries, 0)
    /\ mpc' = IF Len(wpc) + 2 \in Threads THEN "start" ELSE "join"
    /\ UNCHANGED <<mainVars, http, inflight, claimed, work_queue, results, lock,
                   fetch_log, recVars>>

\* the threads of download_files_concurrently exist: main is starting them
\* or waiting for them
Aggregating == mpc \in {"start", "join"}

\* work_queue.get_nowait(): the next path is taken, or queue.Empty ends
\* the loop of the worker
WorkerGet(t) ==
    /\ Aggregating
    /\ wpc[t] = "get"
    /\ IF work_queue = <<>>
       THEN /\ wpc' = [wpc EXCEPT ![t] = "exit"]
            /\ UNCHANGED <<work_queue, wfile, wtries, claimed>>
       ELSE /\ wfile' = [wfile EXCEPT ![t] = Head(work_queue)]
            /\ work_queue' = Tail(work_queue)
            /\ claimed' = [claimed EXCEPT ![Head(work_queue)] = @ + 1]
            /\ wtries' = [wtries EXCEPT ![t] = 0]
            /\ wpc' = [wpc EXCEPT ![t] = "send"]
    /\ UNCHANGED <<mpc, mainVars, http, inflight, results, lock, wdata,
                   fetch_log, recVars>>

\* session.get of download_file: one request for the file leaves
WorkerSend(t) ==
    /\ Aggregating
    /\ wpc[t] = "send"
    /\ http' = Sent(http, "domain_list")
    /\ inflight' = inflight + 1
    /\ wtries' = [wtries EXCEPT ![t] = @ + 1]
    /\ wpc' = [wpc EXCEPT ![t] = "download"]
    /\ UNCHANGED <<mpc, mainVars, claimed, work_queue, results, lock, wfile,
                   wdata, fetch_log, recVars>>

\* session.get raises with no (further) request sent: the host refuses the
\* connection; download_file returns None
WorkerRefused(t) ==
    /\ Aggregating
    /\ wpc[t] = "send"
    /\ refusing
    /\ wdata' = [wdata EXCEPT
                    ![t] = download_and_process(FALSE, remote[wfile[t]])]
    /\ fetch_log' = [fetch_log EXCEPT ![wfile[t]] = "failed"]
    /\ wpc' = [wpc EXCEPT ![t] = "lock"]
    /\ UNCHANGED <<mpc, mainVars, http, inflight, wtries, claimed, work_queue,
                   results, lock, wfile, recVars>>

\* a retryable answer: the adapter sends the request again after the backoff
WorkerRetry(t) ==
    /\ Aggregating
    /\ wpc[t] = "download"
    /\ wtries[t] <= busy
    /\ inflight' = inflight - 1
    /\ wpc' = [wpc EXCEPT ![t] = "send"]
    /\ UNCHANGED <<mpc, mainVars, http, wtries, claimed, work_queue, results,
                   lock, wfile, wdata, fetch_log, recVars>>

\* the GET returns or raises; download_and_process builds processed_data
WorkerDownload(t) ==
    /\ Aggregating
    /\ wpc[t] = "download"
    /\ wtries[t] > busy
    /\ \E ok \in BOOLEAN :
          /\ wdata' = [wdata EXCEPT
                          ![t] = download_and_process(ok, remote[wfile[t]])]
          /\ fetch_log' = [fetch_log EXCEPT
                              ![wfile[t]] = IF ok THEN "ok" ELSE "failed"]
    /\ inflight' = inflight - 1
    /\ wpc' = [wpc EXCEPT ![t] = "lock"]
    /\ UNCHANGED <<mpc, mainVars, http, wtries, claimed, work_queue, results,
                   lock, wfile, recVars>>

\* variant: the worker enters the critical section without the lock
WorkerNoLock(t) ==
    /\ Aggregating
    /\ wpc[t] = "lock"
    /\ lock' = t
    /\ wpc' = [wpc EXCEPT ![t] = "extend"]
    /\ UNCHANGED <<mpc, mainVars, http, wtries, claimed, work_queue, results, wfile,
                   wdata, inflight, fetch_log, recVars>>

\* with lock: (acquire)
WorkerLock(t) ==
    /\ Aggregating
    /\ wpc[t] = "lock"
    /\ lock = 0
    /\ lock' = t
    /\ wpc' = [wpc EXCEPT ![t] = "extend"]
    /\ UNCHANGED <<mpc, mainVars, http, wtries, claimed, work_queue, results, wfile, wdata,
                   inflight, fetch_log, recVars>>

\* variant: the shared list is overwritten instead of extended
WorkerOverwrite(t) ==
    /\ Aggregating
    /\ wpc[t] = "extend"
    /\ results' = wdata[t]
    /\ lock' = 0
    /\ wpc' = [wpc EXCEPT ![t] = "get"]
    /\ UNCHANGED <<mpc, mainVars, http, wtries, claimed, work_queue, wfile, wdata, inflight,
                   fetch_log, recVars>>

\* results.extend(processed_data); release; work_queue.task_done()
WorkerExtend(t) ==
    /\ Aggregating
    /\ wpc[t] = "extend"
    /\ results' = results \o wdata[t]
    /\ lock' = 0
    /\ wpc' = [wpc EXCEPT ![t] = "get"]
    /\ UNCHANGED <<mpc, mainVars, http, wtries, claimed, work_queue, wfile, wdata, inflight,
                   fetch_log, recVars>>

Worker == \E t \in DOMAIN wpc :
             \/ WorkerGet(t)
             \/ WorkerSend(t)
             \/ WorkerRefused(t)
             \/ WorkerRetry(t)
             \/ WorkerDownload(t)
             \/ WorkerLock(t)
             \/ WorkerExtend(t)

\* variant: only the first thread is joined
JoinFirstThread ==
    /\ mpc = "join"
    /\ \A t \in DOMAIN wpc \cap {1} : wpc[t] = "exit"
    /\ dns_rewrites' = results
    /\ IF Falsy(Some(results))
       THEN /\ mpc' = "exit"
            /\ exit_code' = 1
       ELSE /\ mpc' = "update"
            /\ UNCHANGED exit_code
    /\ UNCHANGED <<env, remote, busy, refusing, http, MAX_WORKERS, BATCH_SIZE, selVars, aggVars, recVars>>

\* thread.join() of every thread, return results; main checks the result
Join ==
    /\ mpc = "join"
    /\ \A t \in DOMAIN wpc : wpc[t] = "exit"
    /\ dns_rewrites' = results
    /\ IF Falsy(Some(results))
       THEN /\ mpc' = "exit"
            /\ exit_code' = 1
       ELSE /\ mpc' = "update"
            /\ UNCHANGED exit_code
    /\ UNCHANGED <<env, remote, busy, refusing, http, MAX_WORKERS, BATCH_SIZE, selVars, aggVars, recVars>>

(***************************************************************************)
(* update_dns_rewrites() and batch_update_rewrites().                      *)
(***************************************************************************)
\* fetch_current_rewrites; then batch_update_rewrites is entered
FetchCurrent ==
    /\ mpc = "update"
    /\ \E ok \in BOOLEAN,
          table \in (IF server.some THEN {server.val} ELSE ServerTables) :
       \E sent \in RequestsOfCall(~ok /\ refusing, busy) :
          /\ http' = SentCall(http, "rewrite_list", sent)
          /\ server' = IF sent = 0 THEN server ELSE Some(table)
          /\ current_rewrites' = fetch_current_rewrites(ok, table)
          /\ baseline' = IF ok THEN "ok" ELSE "failed"
    /\ rstate' = "DIFF_APPLY"
    /\ mpc' = "batch"
    /\ UNCHANGED <<mainVars, aggVars, i, added_count, updated_count,
                   skipped_count, calls, outcomes, run, prev, progress>>

\* Python's %: the result has the sign of the divisor
PyMod(n, d) == IF d > 0 THEN n % d ELSE -((-n) % (-d))

\* if (i + 1) % batch_size == 0: log the progress summary; the modulo
\* raises ZeroDivisionError for batch_size 0, outside any try of the loop
ProgressCheck ==
    /\ i' = i + 1
    /\ IF BATCH_SIZE = 0
       THEN /\ rstate' = "FAILED"
            /\ mpc' = "finish"
            /\ UNCHANGED progress
       ELSE /\ progress' = IF PyMod(i + 1, BATCH_SIZE) = 0
                           THEN Append(progress, i + 1) ELSE progress
            /\ UNCHANGED <<rstate, mpc>>

\* one iteration of the loop of batch_update_rewrites
ApplyEntry ==
    /\ mpc = "batch"
    /\ i < Len(dns_rewrites)
    /\ IF ~current_rewrites.some
       THEN \* "domain in None" raises TypeError, caught by exception_handler
            /\ rstate' = "FAILED"
            /\ mpc' = "finish"
            /\ UNCHANGED <<http, server, i, added_count, updated_count,
                           skipped_count, calls, outcomes, progress>>
       ELSE LET rewrite == dns_rewrites[i + 1]
                domain == rewrite.domain
                answer == rewrite.answer
                what == Decision(domain, answer,
                                 Consulted(current_rewrites, server).val)
            IN  IF what = "skip"
                THEN /\ skipped_count' = skipped_count + 1
                     /\ outcomes' = Append(outcomes, "skipped")
                     /\ ProgressCheck
                     /\ UNCHANGED <<http, server, added_count,
                                    updated_count, calls>>
                ELSE \E outcome \in WriteOutcomes :
                     \E sent \in RequestsOfCall(outcome = "raised" /\ refusing, busy) :
                     LET call == WriteCall(what, domain, answer)
                     IN  /\ calls' = Append(calls, call)
                         /\ http' = SentCall(http, what, sent)
                         /\ outcomes' = Append(outcomes, outcome)
                         /\ server' = IF outcome = "ok"
                                      THEN Some(ServerApply(server.val,
                                                call.domain, call.answer))
                                      ELSE server
                         /\ added_count' =
                                IF what = "add" /\ outcome # "raised"
                                THEN added_count + 1 ELSE added_count
                         /\ updated_count' =
                                IF what = "update" /\ outcome # "raised"
                                THEN updated_count + 1 ELSE updated_count
                         /\ UNCHANGED skipped_count
                         /\ IF outcome = "raised" /\ ~Caught(outcome)
                            THEN \* the exception leaves batch_update_rewrites
                                 /\ rstate' = "FAILED"
                                 /\ mpc' = "finish"
                                 /\ UNCHANGED <<i, progress>>
                            ELSE ProgressCheck
    /\ UNCHANGED <<mainVars, aggVars, current_rewrites, baseline, run, prev>>

\* the loop is over: final log line, update_dns_rewrites returns
FinishBatch ==
    /\ mpc = "batch"
    /\ i = Len(dns_rewrites)
    /\ rstate' = "DONE"
    /\ mpc' = "finish"
    /\ UNCHANGED <<mainVars, http, aggVars, server, current_rewrites, i, added_count,
                   updated_count, skipped_count, baseline, calls, outcomes,
                   run, prev, progress>>

\* "Script execution finished successfully."; return 0
MainReturn ==
    /\ mpc = "finish"
    /\ exit_code' = 0
    /\ mpc' = "exit"
    /\ UNCHANGED <<env, remote, busy, refusing, http, MAX_WORKERS, BATCH_SIZE, selVars, dns_rewrites, aggVars,
                   recVars>>

Next ==
    \/ ReadConfig
    \/ SelectServices
    \/ GetFileList
    \/ StartAggregation
    \/ StartThread
    \/ Worker
    \/ Join
    \/ FetchCurrent
    \/ ApplyEntry
    \/ FinishBatch
    \/ MainReturn

Spec == Init /\ [][Next]_vars

(***************************************************************************)
(* download_files_concurrently() alone, called on a resolved file list,    *)
(* with threads that are scheduled fairly and fetches that return or fail. *)
(***************************************************************************)
InitAtAggregate ==
    /\ BATCH_SIZE = MaxBatch
    /\ mpc = "aggregate"
    /\ dns_rewrites = <<>>
    /\ http = [NoRequests EXCEPT !["catalog"] =
                   (IF env.ALL_SERVICES THEN 2 ELSE 1) * (1 + busy)]
    /\ exit_code = -1
    /\ fetch_all_services = env.ALL_SERVICES
    /\ specific_services_names =
           IF env.ALL_SERVICES
           THEN get_available_services_names("ok").val
           ELSE get_specific_services_names(env.SERVICE_NAMES)
    /\ file_paths = FilesOf(Catalog, specific_services_names)
    /\ file_paths # <<>>
    /\ work_queue = <<>>
    /\ results = <<>>
    /\ lock = 0
    /\ wpc = <<>>
    /\ wfile = <<>>
    /\ wdata = <<>>
    /\ wtries = <<>>
    /\ claimed = [f \in AllFiles |-> 0]
    /\ inflight = 0
    /\ fetch_log = [f \in AllFiles |-> "none"]
    /\ server = None
    /\ current_rewrites = None
    /\ rstate = "INIT"
    /\ i = 0
    /\ added_count = 0
    /\ updated_count = 0
    /\ skipped_count = 0
    /\ baseline = "none"
    /\ calls = <<>>
    /\ outcomes = <<>>
    /\ run = 1
    /\ prev = NoPrev
    /\ progress = <<>>

\* MAX_WORKERS = int(os.getenv('MAX_WORKERS', '3')) accepts every integer;
\* range(MAX_WORKERS) is empty for 0 and for a negative number
WorkerCounts == (-1)..MaxWorkers

InitAggregate ==
    /\ env \in {e \in Environments : e.missing = {}}
    /\ remote = Served
    /\ \E servers \in (IF env \in RetriedEnvironments THEN Disturbed ELSE Retrying) :
           busy = servers[1] /\ refusing = servers[2]
    /\ MAX_WORKERS \in WorkerCounts
    /\ InitAtAggregate

NextAggregate == StartAggregation \/ StartThread \/ Worker \/ Join

\* a started thread keeps running; a GET returns or times out
WorkerFairness(t) ==
    /\ WF_vars(t \in DOMAIN wpc /\ WorkerGet(t))
    /\ WF_vars(t \in DOMAIN wpc /\ WorkerSend(t))
    /\ WF_vars(t \in DOMAIN wpc /\ WorkerRefused(t))
    /\ WF_vars(t \in DOMAIN wpc /\ WorkerRetry(t))
    /\ WF_vars(t \in DOMAIN wpc /\ WorkerDownload(t))
    /\ WF_vars(t \in DOMAIN wpc /\ WorkerLock(t))
    /\ WF_vars(t \in DOMAIN wpc /\ WorkerExtend(t))

SpecAggregateFair ==
    /\ InitAggregate
    /\ [][NextAggregate]_vars
    /\ WF_vars(StartAggregation)
    /\ WF_vars(StartThread)
    /\ \A t \in 1..MaxWorkers : WorkerFairness(t)
    /\ WF_vars(Join)

(***************************************************************************)
(* download_files_concurrently() on one file whose body is any text over   *)
(* a letter, the hash sign, the blank and the newline.  Each line of the   *)
(* body is blank or free of blanks.                                        *)
(***************************************************************************)
MaxBody == 5

BodyAlphabet == {"a", "#", " ", NL}

IsBlank(line) == Strip(line) = <<>>

NoBlankInside(line) == \A k \in 1..Len(line) : line[k] \notin Whitespace

Bodies ==
    {b \in UNION {[1..n -> BodyAlphabet] : n \in 0..MaxBody} :
        \A line \in Range(SplitLines(b)) : IsBlank(line) \/ NoBlankInside(line)}

InitParse ==
    /\ env = Environment(FALSE, <<"Y">>, {})
    /\ remote \in {[Served EXCEPT !["f3"] = b] : b \in Bodies}
    /\ \E servers \in Disturbed : busy = servers[1] /\ refusing = servers[2]
    /\ MAX_WORKERS = 1
    /\ InitAtAggregate

SpecParse == InitParse /\ [][NextAggregate]_vars

(***************************************************************************)
(* Two reconciliation runs in succession over the same aggregated list:    *)
(* the next run of the script, from the call of update_dns_rewrites on.    *)
(***************************************************************************)
AllAccepted(outs) == \A k \in 1..Len(outs) : outs[k] \in {"ok", "skipped"}

Rerun ==
    /\ mpc = "finish"
    /\ run = 1
    /\ prev' = [done |-> rstate = "DONE", clean |-> AllAccepted(outcomes),
                 writes |-> Len(calls)]
    /\ run' = 2
    /\ mpc' = "update"
    /\ rstate' = "INIT"
    /\ current_rewrites' = None
    /\ baseline' = "none"
    /\ i' = 0
    /\ added_count' = 0
    /\ updated_count' = 0
    /\ skipped_count' = 0
    /\ calls' = <<>>
    /\ outcomes' = <<>>
    /\ http' = NoRequests
    /\ progress' = <<>>
    /\ UNCHANGED <<mainVars, aggVars, server>>

\* one call of update_dns_rewrites for every BATCH_SIZE that int() accepts
BatchSizes == (-MaxBatch)..MaxBatch

BatchTables == {t \in ServerTables : DOMAIN t \subseteq {DomB}}

InitBatch ==
    /\ env = Environment(FALSE, <<"Y">>, {})
    /\ remote = Served
    /\ busy = 0
    /\ refusing \in BOOLEAN
    /\ MAX_WORKERS = 1
    /\ BATCH_SIZE \in BatchSizes
    /\ mpc = "update"
    /\ dns_rewrites \in DesiredLists
    /\ server \in {Some(t) : t \in BatchTables}
    /\ InitExceptServer

NextBatch == FetchCurrent \/ ApplyEntry \/ FinishBatch

SpecBatch == InitBatch /\ [][NextBatch]_vars

NextReconcile ==
    \/ FetchCurrent
    \/ ApplyEntry
    \/ FinishBatch
    \/ Rerun

SpecReconcile == InitReconcile /\ [][NextReconcile]_vars

(***************************************************************************)
(* Properties.                                                             *)
(***************************************************************************)
Count(q, x) == Cardinality({k \in 1..Len(q) : q[k] = x})

DomainsOf(q) == {q[k].domain : k \in 1..Len(q)}

Aggregated == mpc \in {"update", "batch", "finish", "exit"} /\ file_paths # <<>>

\* C1: bounded concurrency: the number of domain-list fetches in flight
\* never exceeds MAX_WORKERS, however many file paths are pending.
C1_BoundedConcurrency == inflight <= MAX_WORKERS

\* C1 witness: the pool is saturated (as many fetches in flight as workers)
\* while a further file path is still waiting in the queue.
C1_Witness ==
    /\ inflight = MAX_WORKERS
    /\ work_queue # <<>>
    /\ Len(file_paths) > MAX_WORKERS

FailedFiles == {f \in Range(file_paths) : fetch_log[f] = "failed"}

RECURSIVE ExpectedCount(_, _)
ExpectedCount(paths, e) ==
    IF paths = <<>> THEN 0
    ELSE (IF fetch_log[Head(paths)] = "ok"
          THEN Count(download_and_process(TRUE, remote[Head(paths)]), e)
          ELSE 0)
         + ExpectedCount(Tail(paths), e)

\* the aggregated list holds exactly the entries of the files that were
\* fetched, each as often as those files list it
HoldsFetchedFiles ==
    \A d \in Domains :
        Count(dns_rewrites, Entry(d)) = ExpectedCount(file_paths, Entry(d))

Reconciling == mpc \in {"update", "batch", "finish"} \/ exit_code = 0

\* C2 as stated: when exactly one of the N files fails, the aggregated list
\* holds the entries of the other N-1 files and the run goes on to
\* reconciliation.
C2_AsStated ==
    (Aggregated /\ Cardinality(FailedFiles) = 1)
        => (HoldsFetchedFiles /\ Reconciling)

\* C2 amended: when exactly one of the N files fails, the aggregated list
\* holds the entries of the other N-1 files; the run goes on to
\* reconciliation when those files contributed at least one entry, and
\* returns 1 without contacting the server when they contributed none.
C2_PartialFailure ==
    (Aggregated /\ Cardinality(FailedFiles) = 1)
        => /\ HoldsFetchedFiles
           /\ Reconciling <=> (\E d \in Domains :
                                   ExpectedCount(file_paths, Entry(d)) > 0)
           /\ ~Reconciling => (exit_code = 1 /\ ~server.some)

\* C2 witness: one of three files failed and the run reached the
\* reconciliation with the entries of the other two.
C2_Witness ==
    /\ mpc = "update"
    /\ Len(file_paths) = 3
    /\ Cardinality(FailedFiles) = 1
    /\ Len(dns_rewrites) >= 2

\* C3: idempotence: when a reconciliation run completed with every write
\* accepted, the next run over the same list, with no outside change to
\* the server, issues no add or update call and ends with added = 0,
\* updated = 0 and skipped = the number of desired entries.
C3_Idempotence ==
    (run = 2 /\ prev.done /\ prev.clean)
        => /\ calls = <<>>
           /\ added_count = 0
           /\ updated_count = 0
           /\ rstate = "DONE" => skipped_count = Len(dns_rewrites)

\* C3 witness: the first run issued writes, all accepted, and the second
\* run completed.
C3_Witness ==
    /\ run = 2
    /\ prev.done
    /\ prev.clean
    /\ prev.writes >= 2
    /\ rstate = "DONE"

ServerMaps(d, a) ==
    server.some /\ d \in DOMAIN server.val /\ server.val[d] = a

\* C4 as stated: after a successful run (main returned 0, here moreover
\* with the snapshot obtained and the run DONE), the server maps every
\* desired domain to the desired answer.
C4_AsStated ==
    (exit_code = 0 /\ rstate = "DONE")
        => \A k \in 1..Len(dns_rewrites) :
               ServerMaps(dns_rewrites[k].domain, dns_rewrites[k].answer)

\* C4 amended: after a run that returned 0, the server maps to the desired
\* answer the domain of every desired entry that the run skipped or whose
\* add or update call the server accepted.
C4_Convergence ==
    exit_code = 0
        => \A k \in 1..Len(outcomes) :
               outcomes[k] \in {"ok", "skipped"}
                   => ServerMaps(dns_rewrites[k].domain, dns_rewrites[k].answer)

\* C4 witness: a run that returned 0 after an accepted write, a skipped
\* entry and a write that failed.
C4_Witness ==
    /\ exit_code = 0
    /\ \E k \in 1..Len(outcomes) : outcomes[k] = "ok"
    /\ \E k \in 1..Len(outcomes) : outcomes[k] = "skipped"
    /\ \E k \in 1..Len(outcomes) : outcomes[k] \in {"raised", "http_error"}

\* C5: non-deletion: every write call of a run is an add or an update for
\* a domain of the desired list, and every domain of the snapshot that is
\* absent from the desired list keeps its answer on the server.
C5_NonDeletion ==
    /\ \A k \in 1..Len(calls) :
           /\ calls[k].op \in {"add", "update"}
           /\ calls[k].domain \in DomainsOf(dns_rewrites)
    /\ current_rewrites.some
           => \A d \in (DOMAIN current_rewrites.val) \ DomainsOf(dns_rewrites) :
                  ServerMaps(d, current_rewrites.val[d])

\* C5 witness: a completed run with accepted writes while the snapshot held
\* a domain that is not desired.
C5_Witness ==
    /\ exit_code = 0
    /\ rstate = "DONE"
    /\ \E k \in 1..Len(outcomes) : outcomes[k] = "ok"
    /\ (DOMAIN current_rewrites.val) \ DomainsOf(dns_rewrites) # {}

WritesUpTo(k) == Cardinality({j \in 1..k : outcomes[j] # "skipped"})

IssuedFor(k, what) ==
    /\ outcomes[k] # "skipped"
    /\ calls[WritesUpTo(k)] = [op |-> what,
                               domain |-> dns_rewrites[k].domain,
                               answer |-> dns_rewrites[k].answer]

ExampleSnapshot == (DomA :> lancache_server) @@ (DomB :> OtherAnswer)

ExampleDesired == <<Entry(DomA), Entry(DomC)>>

\* C6: diff decision: for every processed entry an add call is issued iff
\* its domain is absent from the snapshot, an update call iff it is present
\* with another answer, and no call iff it is present with the same answer;
\* with snapshot {a: target, b: other} and desired [a, c] the run skips a,
\* adds c, leaves b alone and, the add not raising, counts 1, 0, 1.
C6_DiffDecision ==
    current_rewrites.some =>
        LET snap == current_rewrites.val
        IN  /\ Len(calls) = WritesUpTo(Len(outcomes))
            /\ \A k \in 1..Len(outcomes) :
                   LET e == dns_rewrites[k]
                       absent == e.domain \notin DOMAIN snap
                       differs == ~absent /\ snap[e.domain] # e.answer
                       equal == ~absent /\ snap[e.domain] = e.answer
                   IN  /\ absent <=> IssuedFor(k, "add")
                       /\ differs <=> IssuedFor(k, "update")
                       /\ equal <=> outcomes[k] = "skipped"
            /\ (dns_rewrites = ExampleDesired /\ snap = ExampleSnapshot
                    /\ rstate = "DONE")
                   => /\ outcomes[1] = "skipped"
                      /\ calls = <<[op |-> "add", domain |-> DomC,
                                   answer |-> lancache_server]>>
                      /\ ServerMaps(DomB, OtherAnswer)
                      /\ skipped_count = 1
                      /\ updated_count = 0
                      /\ outcomes[2] # "raised" => added_count = 1

\* C6 witness: the example has run to its end with the add accepted.
C6_Witness ==
    /\ run = 1
    /\ dns_rewrites = ExampleDesired
    /\ current_rewrites = Some(ExampleSnapshot)
    /\ rstate = "DONE"
    /\ outcomes = <<"skipped", "ok">>

NeedsWrite(snap) ==
    {e \in Range(dns_rewrites) :
        e.domain \notin DOMAIN snap \/ snap[e.domain] # e.answer}

\* C7 as stated: a run issues at most one write call per domain, and as
\* many write calls as there are distinct desired domains that are absent
\* from the snapshot or have another answer in it.
C7_AsStated ==
    /\ \A j, k \in 1..Len(calls) :
           j # k => calls[j].domain # calls[k].domain
    /\ (rstate = "DONE" /\ current_rewrites.some)
           => Len(calls) = Cardinality(NeedsWrite(current_rewrites.val))

\* C8: when the fetch of the current rewrite table fails, the run issues
\* no add and no update call.
C8_BaselineFailureBlocksWrites ==
    baseline = "failed"
        => /\ calls = <<>>
           /\ added_count = 0
           /\ updated_count = 0

\* C8 witness: the fetch of the table failed and main has returned, with
\* several desired entries at hand.
C8_Witness ==
    /\ baseline = "failed"
    /\ mpc = "exit"
    /\ Len(dns_rewrites) >= 2

\* C9 as stated: when the fetch of the current rewrite table fails, the run
\* ends FAILED and main returns a non-zero code; main returns 0 only when
\* the run ended DONE.
C9_AsStated ==
    /\ (baseline = "failed" /\ mpc = "exit")
           => (rstate = "FAILED" /\ exit_code # 0)
    /\ exit_code = 0 => rstate = "DONE"

RECURSIVE PlannedCalls(_, _)
PlannedCalls(entries, snap) ==
    IF entries = <<>> THEN <<>>
    ELSE LET e == Head(entries)
             rest == PlannedCalls(Tail(entries), snap)
         IN  IF e.domain \notin DOMAIN snap
             THEN <<[op |-> "add", domain |-> e.domain, answer |-> e.answer]>>
                  \o rest
             ELSE IF snap[e.domain] = e.answer THEN rest
             ELSE <<[op |-> "update", domain |-> e.domain,
                     answer |-> e.answer]>> \o rest

\* C10: write-failure isolation: whatever the outcome of each write call,
\* the calls issued so far are those that the processed entries require
\* against the snapshot, and once the snapshot was obtained the run ends
\* only after every desired entry was processed.
C10_WriteFailureIsolation ==
    baseline = "ok"
        => /\ calls = PlannedCalls(SubSeq(dns_rewrites, 1, i),
                                   current_rewrites.val)
           /\ Len(outcomes) = i
           /\ mpc \in {"finish", "exit"}
                  => (rstate = "DONE" /\ i = Len(dns_rewrites))

\* C10 witness: a write call failed, a later entry got its write call
\* accepted, and the run completed.
C10_Witness ==
    /\ rstate = "DONE"
    /\ \E j, k \in 1..Len(outcomes) :
           /\ j < k
           /\ outcomes[j] \in {"raised", "http_error"}
           /\ outcomes[k] = "ok"

\* ---------------------------------------------------------------------
\* C11  Configuration errors precede all network activity: when a
\* mandatory setting (ADGUARD_USERNAME, ADGUARD_PASSWORD, LANCACHE_SERVER,
\* ADGUARD_API) is missing, no HTTP request of any kind (catalog, domain
\* list, rewrite list, add, update) is issued at any point of the run, no
\* worker fetches, no write call is made, and main returns 1.
C11_ConfigErrorBeforeNetwork ==
    env.missing # {} =>
        /\ http = NoRequests
        /\ \A f \in AllFiles : fetch_log[f] = "none"
        /\ calls = <<>>
        /\ baseline = "none"
        /\ mpc \in {"config", "exit"}
        /\ mpc = "exit" => exit_code = 1

\* C11 witness: main has returned on a run where only ADGUARD_API is
\* missing.
C11_Witness ==
    /\ env.missing = {"ADGUARD_API"}
    /\ mpc = "exit"
    /\ exit_code = 1

\* ---------------------------------------------------------------------
\* C12  Selection resolution: with the catalog X=[f1,f2], Y=[f3], the
\* resolved file list is the concatenation, in catalog order, of the
\* domain_files of exactly the catalog entries whose name is selected:
\* every catalog name under ALL_SERVICES=true (whatever SERVICE_NAMES
\* holds), else the names of SERVICE_NAMES.  SERVICE_NAMES="Y" resolves to
\* [f3] only and ALL_SERVICES=true to [f1,f2,f3].
SelectedNames ==
    IF env.ALL_SERVICES THEN {Catalog[k].name : k \in 1..Len(Catalog)}
    ELSE {Strip(part) : part \in Range(SplitOn(env.SERVICE_NAMES, ",", <<>>, <<>>))}

ResolvedFiles ==
    (IF SvcX \in SelectedNames THEN <<"f1", "f2">> ELSE <<>>)
    \o (IF SvcY \in SelectedNames THEN <<"f3">> ELSE <<>>)

C12_SelectionResolution ==
    mpc = "aggregate" =>
        /\ file_paths = ResolvedFiles
        /\ env.ALL_SERVICES => file_paths = <<"f1", "f2", "f3">>
        /\ (~env.ALL_SERVICES /\ env.SERVICE_NAMES = <<"Y">>) =>
               file_paths = <<"f3">>

\* C12 witness: SERVICE_NAMES="Y,X" names the services against the catalog
\* order and the three files are resolved in catalog order.
C12_Witness ==
    /\ mpc = "aggregate"
    /\ ~env.ALL_SERVICES
    /\ env.SERVICE_NAMES = <<"Y", ",", "X">>
    /\ file_paths = <<"f1", "f2", "f3">>

\* ---------------------------------------------------------------------
\* C13  Early-abort exit codes: main returns 1 when the file-path
\* resolution is empty (an unreachable or malformed catalog included),
\* when the aggregated result is empty, or when no service is selected;
\* a run that returns 1 has sent no request to the rewrite server (no
\* list, add or update call), and only a run with a non-empty file list
\* and a non-empty aggregated result goes on to the rewrite server.
RewriteServerUntouched ==
    /\ http["rewrite_list"] = 0
    /\ http["add"] = 0
    /\ http["update"] = 0
    /\ calls = <<>>
    /\ baseline = "none"

NoServiceSelected == ~env.ALL_SERVICES /\ Strip(env.SERVICE_NAMES) = <<>>

C13_EarlyAbort ==
    /\ exit_code = 1 => RewriteServerUntouched
    /\ (mpc = "exit" /\ (file_paths = <<>> \/ dns_rewrites = <<>>)) =>
           exit_code = 1
    /\ mpc \in {"update", "batch", "finish"} =>
           (file_paths # <<>> /\ dns_rewrites # <<>>)
    /\ NoServiceSelected =>
           /\ mpc \in {"config", "select", "exit"}
           /\ RewriteServerUntouched
           /\ mpc = "exit" => exit_code = 1

\* C13 witness: files were resolved and requested, nothing was
\* aggregated, and main returned 1.
C13_Witness ==
    /\ mpc = "exit"
    /\ exit_code = 1
    /\ file_paths # <<>>
    /\ http["domain_list"] = Len(file_paths) * (1 + busy)
    /\ dns_rewrites = <<>>

\* ---------------------------------------------------------------------
\* C14  Unique domains in the desired state: the DesiredState returned by
\* the aggregation holds at most one entry per domain, also when the same
\* domain appears in two fetched files or twice in one file.
C14_AsStated ==
    mpc \in {"update", "batch", "finish"} =>
        \A j, k \in 1..Len(dns_rewrites) :
            dns_rewrites[j].domain = dns_rewrites[k].domain => j = k

\* ---------------------------------------------------------------------
\* C15  Exactly-once claiming and no lost update: for every MAX_WORKERS
\* and every interleaving of the workers, each queued file path is
\* claimed by exactly one worker and fetched exactly once, at most one
\* worker at a time extends the shared results list, and the results list
\* holds exactly the entries of every successfully fetched file that has
\* been folded (after the join: of every successfully fetched file).  One
\* fetch is one call of download_file: its first request and the repeats
\* that follow retryable answers, 1 + RetryTotal requests at most.
Holding(t) == wpc[t] \in {"send", "download", "lock", "extend"}

Holders(f) == {t \in DOMAIN wpc : Holding(t) /\ wfile[t] = f}

Folded(f) == claimed[f] = 1 /\ Holders(f) = {}

FoldedPaths == SelectSeq(file_paths, Folded)

RECURSIVE RequestsOf(_)
RequestsOf(T) ==
    IF T = {} THEN 0
    ELSE LET t == CHOOSE x \in T : TRUE
         IN  wtries[t] + RequestsOf(T \ {t})

C15_ExactlyOnceNoLostUpdate ==
    /\ \A f \in AllFiles :
           /\ claimed[f] <= 1
           /\ Cardinality(Holders(f)) <= claimed[f]
           /\ Aggregating =>
                  claimed[f] + Count(work_queue, f) = Count(file_paths, f)
           /\ Aggregated => claimed[f] = Count(file_paths, f)
    /\ \A t \in DOMAIN wpc : wtries[t] <= 1 + busy
    /\ LET held == RequestsOf({t \in DOMAIN wpc : Holding(t)})
       IN  /\ http["domain_list"] >= held
           /\ http["domain_list"] <=
                  (1 + busy) * Cardinality({f \in AllFiles : Folded(f)}) + held
    /\ \A f \in AllFiles : fetch_log[f] = "ok" => http["domain_list"] >= 1
    /\ inflight = Cardinality({t \in DOMAIN wpc : wpc[t] = "download"})
    /\ Cardinality({t \in DOMAIN wpc : wpc[t] = "extend"}) <= 1
    /\ \A t \in DOMAIN wpc : wpc[t] = "extend" <=> lock = t
    /\ Aggregating =>
           LET folded == FoldedPaths
           IN  \A d \in Domains :
                   Count(results, Entry(d)) = ExpectedCount(folded, Entry(d))
    /\ Aggregated => HoldsFetchedFiles

\* C15 witness: two workers, three files; one worker extends the list
\* while the other waits for the lock, both holding fetched data.
C15_Witness ==
    /\ mpc = "join"
    /\ MAX_WORKERS = 2
    /\ Len(file_paths) = 3
    /\ wpc[1] = "extend"
    /\ wpc[2] = "lock"
    /\ wdata[1] # <<>>
    /\ wdata[2] # <<>>

\* ---------------------------------------------------------------------
\* C16  Aggregation terminates with a full join: when every fetch returns
\* or fails and the workers are scheduled fairly, every worker eventually
\* exits and download_files_concurrently eventually returns; with
\* MAX_WORKERS >= 1 it returns only after every worker has exited and the
\* work queue is empty, with no worker still fetching or folding.  With
\* MAX_WORKERS <= 0 no thread is started and the call returns at once with
\* an empty result and every path still in the queue.
Returned == mpc \in {"update", "exit"}

AllWorkersExited ==
    /\ DOMAIN wpc = 1..MAX_WORKERS
    /\ \A t \in DOMAIN wpc : wpc[t] = "exit"

FullJoin ==
    /\ AllWorkersExited
    /\ work_queue = <<>>
    /\ inflight = 0
    /\ lock = 0

NothingStarted ==
    /\ wpc = <<>>
    /\ work_queue = file_paths
    /\ results = <<>>
    /\ dns_rewrites = <<>>
    /\ http["domain_list"] = 0

C16_TerminatesWithFullJoin ==
    /\ [](Returned => IF MAX_WORKERS >= 1 THEN FullJoin ELSE NothingStarted)
    /\ <>AllWorkersExited
    /\ <>Returned

\* C16 as stated: for whatever MAX_WORKERS the environment gives, every
\* worker eventually exits, the call eventually returns, and it returns only
\* after all workers have exited and the work queue is empty.
C16_AsStated ==
    /\ [](Returned => FullJoin)
    /\ <>AllWorkersExited
    /\ <>Returned

\* C16 witness: the call has returned after two workers drained a queue of
\* three files.
C16_Witness ==
    /\ Returned
    /\ MAX_WORKERS = 2
    /\ claimed = [f \in AllFiles |-> 1]
    /\ AllWorkersExited

\* ---------------------------------------------------------------------
\* C17  Single snapshot and phase order: in a run the current rewrite
\* table is fetched exactly once, the fetch completes before the first add
\* or update call, every diff decision uses that one snapshot (it is
\* neither refreshed nor changed by the run's own writes), and the writes
\* are issued one at a time in DesiredState order.  The one fetch is one
\* call of fetch_current_rewrites: its first request and the repeats that
\* follow retryable answers; no list request follows the snapshot.
SnapshotFetched == baseline # "none"

C17_StateInvariant ==
    /\ ~SnapshotFetched => http["rewrite_list"] = 0
    /\ baseline = "ok" => http["rewrite_list"] = 1 + busy
    /\ http["rewrite_list"] <= 1 + busy
    /\ busy <= RetryTotal
    /\ http["add"] + http["update"] <= Len(calls) * (1 + busy)
    /\ http["add"] + http["update"] > 0 => calls # <<>>
    /\ calls # <<>> => (baseline = "ok" /\ current_rewrites.some)
    /\ mpc \in {"batch", "finish"} => SnapshotFetched
    /\ (SnapshotFetched /\ current_rewrites.some) =>
           calls = PlannedCalls(SubSeq(dns_rewrites, 1, i),
                                current_rewrites.val)

C17_Step ==
    /\ SnapshotFetched =>
           /\ current_rewrites' = current_rewrites
           /\ http'["rewrite_list"] = http["rewrite_list"]
    /\ i' \in {i, i + 1}
    /\ \/ calls' = calls
       \/ /\ i' = i + 1
          /\ Len(calls') = Len(calls) + 1
          /\ SubSeq(calls', 1, Len(calls)) = calls
          /\ calls'[Len(calls')].domain = dns_rewrites[i'].domain

C17_SingleSnapshot == [](C17_StateInvariant) /\ [][C17_Step]_vars

\* C17 witness: the run wrote to the server, so the live table differs
\* from the snapshot, and a later entry was still decided.
C17_Witness ==
    /\ mpc = "batch"
    /\ current_rewrites.some
    /\ server.val # current_rewrites.val
    /\ Len(calls) >= 2
    /\ i < Len(dns_rewrites)

\* ---------------------------------------------------------------------
\* C18  Counters exclude failed writes: added equals the number of add
\* calls the server accepted and updated the number of update calls it
\* accepted; a write call that fails (transport exception or HTTP error
\* status) increments none of added, updated, skipped, so that
\* added + updated + skipped = processed entries minus failed writes.
IsWrite(o) == o # "skipped"

WriteResults == SelectSeq(outcomes, IsWrite)

Accepted(what) ==
    Cardinality({k \in 1..Len(calls) :
                    calls[k].op = what /\ WriteResults[k] = "ok"})

FailedWrites ==
    Cardinality({k \in 1..Len(outcomes) :
                    outcomes[k] \in {"raised", "http_error"}})

C18_AsStated ==
    /\ added_count = Accepted("add")
    /\ updated_count = Accepted("update")
    /\ added_count + updated_count + skipped_count
           = Len(outcomes) - FailedWrites

\* ---------------------------------------------------------------------
\* C19  Batching is observability only: for the same DesiredState and
\* CurrentRewriteTable, every integer batchSize that configuration accepts
\* makes batch_update_rewrites issue the same sequence of add/update
\* calls (the calls the whole DesiredState requires against the snapshot)
\* and process every entry, so that the counters end the same; batchSize
\* only decides the processed counts, its positive multiples, at which a
\* progress summary is emitted.
IsPositiveMultiple(k, b) == \E m \in 1..k : m * b = k \/ m * (-b) = k

Unchanged(snap) ==
    {k \in 1..Len(dns_rewrites) :
        /\ dns_rewrites[k].domain \in DOMAIN snap
        /\ snap[dns_rewrites[k].domain] = dns_rewrites[k].answer}

C19_AsStated ==
    (mpc = "finish" /\ baseline = "ok") =>
        /\ calls = PlannedCalls(dns_rewrites, current_rewrites.val)
        /\ Len(outcomes) = Len(dns_rewrites)
        /\ skipped_count = Cardinality(Unchanged(current_rewrites.val))
        /\ \A k \in 1..Len(dns_rewrites) :
               (\E j \in 1..Len(progress) : progress[j] = k)
                   <=> IsPositiveMultiple(k, BATCH_SIZE)

\* ---------------------------------------------------------------------
\* C20  Comment/blank filtering: for any domain-list body, the desired
\* entries produced from it are exactly its lines that are neither blank
\* (empty or whitespace-only, at any position in the file) nor start with
\* '#', in order, each paired with the target answer.
RECURSIVE DomainLines(_)
DomainLines(lines) ==
    IF lines = <<>> THEN <<>>
    ELSE (IF IsBlank(Head(lines)) \/ Head(Head(lines)) = "#"
          THEN <<>>
          ELSE <<[domain |-> Head(lines), answer |-> lancache_server]>>)
         \o DomainLines(Tail(lines))

C20_AsStated ==
    (Returned /\ fetch_log["f3"] = "ok") =>
        dns_rewrites = DomainLines(SplitLines(remote["f3"]))

====
